---- MODULE Spec2Model ----
(***************************************************************************)
(* Interrupt-driven, ring-buffered AVR USART driver (btr::Usart,           *)
(* src/src/avr/usart.cpp).  Mainline operations run one shared-variable    *)
(* access per step; the receive-complete and data-register-empty           *)
(* interrupt handlers run atomically between any two mainline steps while  *)
(* the global interrupt flag and their enable bit are set.                 *)
(***************************************************************************)
EXTENDS Integers, Sequences, FiniteSets, TLC

\* ------------------------------------------------------------------ bounds
\* Ring sizes: build-time configuration values; the model uses small rings.
BTR_USART_RX_BUFF_SIZE == 3
BTR_USART_TX_BUFF_SIZE == 3
\* Received bytes are 1..MaxByte, sent bytes 1..MaxTxByte; 0 is the value of
\* a slot that was never written.
MaxByte == 2
MaxTxByte == 1
\* Largest timeout argument (milliseconds) passed to send / recv.
MaxTimeout == 2
\* Largest byte count passed to recv(buffer, count, timeout).
MaxCount == 1
\* Longest buffer passed to send(buffer, ...).
MaxLen == 3
\* Number of bytes the peer of the desktop serial port sends in all.
MaxSent == 4
\* Saturation value of the poll counter of recv(buffer, count, timeout).
MaxPolls == 2

\* --------------------------------------------------------------- constants
\* UCSRnA bit numbers of the receive error flags.
FE == 4
DOR == 3
UPE == 2
\* Status values of the driver's header (devices/defines.hpp).
BTR_USART_NO_DATA == 65280
BTR_USART_OVERFLOW_ERR == 512
BTR_USART_TIMEDOUT_ERR == 8192
\* Busy-wait increments, in milliseconds.
BTR_USART_TX_DELAY == 1
BTR_USART_RX_DELAY == 1
\* Values open() writes to the baud-rate and frame-format registers.
BAUD_CALC == 1
BTR_USART_CONFIG == 1

Bytes == 1..MaxByte
TxBytes == 1..MaxTxByte
Timeouts == {0, MaxTimeout}
\* Buffers passed to send(buffer, ...): the bytes 1, 2, ..., n.
TxData == {[i \in 1..n |-> i] : n \in 0..MaxLen}
\* Timeout that send(buffer, ...) passes on to send(byte, false): the default
\* argument of the declaration, a build-time value.
DefaultTimeouts == {0, MaxTimeout}
\* Content of a caller's buffer slot that recv(buffer, ...) has not written.
Untouched == 0 - 1
\* Marker used when no accepted byte is waiting for transmission.
NoByte == 0 - 1

\* Width of int on AVR and on the 32-bit targets (STM32, x86).
AvrIntBits == 16
IntWidths == {AvrIntBits, 32}
\* Classification of an I2C status (bits 16-31): success, and the error
\* classes not acknowledged, bus timeout, bus error.
I2C_OK == 0
I2cErrors == 1..3
\* Bytes a device sends; the typed reads are of 1 and 2 byte integers.
MaxI2cByte == 1
MaxSizeof == 2
I2cBytes == 0..MaxI2cByte

\* ------------------------------------------------------------- bit helpers
RECURSIVE BitAnd(_, _)
BitAnd(a, b) ==
  IF a = 0 \/ b = 0 THEN 0
  ELSE (a % 2) * (b % 2) + 2 * BitAnd(a \div 2, b \div 2)

BitOr(a, b) == a + b - BitAnd(a, b)

Pow2(n) == IF n = 0 THEN 1 ELSE
           IF n = 1 THEN 2 ELSE
           IF n = 2 THEN 4 ELSE
           IF n = 3 THEN 8 ELSE
           IF n = 4 THEN 16 ELSE
           IF n = 5 THEN 32 ELSE
           IF n = 6 THEN 64 ELSE
           IF n = 7 THEN 128 ELSE 256

\* (1 << FE) | (1 << DOR) | (1 << UPE)
RxErrMask == Pow2(FE) + Pow2(DOR) + Pow2(UPE)

\* Values of UCSRnA's error bits that the hardware presents with a byte.
RxStatus == {0, Pow2(FE)}

\* UCSRnB bits used by the driver.
TXEN == "TXEN"
RXEN == "RXEN"
RXCIE == "RXCIE"
UDRIE == "UDRIE"

set_bit(reg, b) == reg \cup {b}
clear_bit(reg, b) == reg \ {b}
bit_is_set(reg, b) == b \in reg
bit_is_clear(reg, b) == b \notin reg

\* ------------------------------------------------ 32-bit status values
\* A uint32_t status: classification in bits 16-31, payload in bits 0-15.
U32(hi, lo) == [hi |-> hi, lo |-> lo]

\* uint32_t to int.  A 16-bit int keeps the low 16 bits, a 32-bit int all
\* 32; a value with the top bit set becomes negative.
IntOf(bits, u) ==
  IF bits = 16
    THEN IF u.lo >= 32768 THEN u.lo - 65536 ELSE u.lo
    ELSE IF u.hi >= 32768 THEN (u.hi - 65536) * 65536 + u.lo
                          ELSE u.hi * 65536 + u.lo

\* int to uint32_t: the value modulo 2^32 (sign extension of a negative int).
U32Of(rc) == U32((rc \div 65536) % 65536, rc % 65536)

\* is_ok(status): the classification is success.
is_ok(u) == u.hi = I2C_OK

\* ValueCodec::decodeFixedInt(buff, val, n, msb): the n bytes of buff, most
\* significant first, as an integer.
RECURSIVE decodeFixedInt(_, _)
decodeFixedInt(buff, n) ==
  IF n = 0 THEN 0 ELSE decodeFixedInt(buff, n - 1) * 256 + buff[n - 1]

VARIABLES
  \* hardware
  ucsr_b,      \* control register B: set of the bits that are 1
  udre,        \* UCSRnA.UDRE: transmit data register empty
  txc,         \* UCSRnA.TXC: transmit complete
  tx_shift,    \* transmit shift register busy
  tx_active,   \* transmitter effectively enabled
  udr,         \* transmit data register: the byte written last
  sreg_i,      \* SREG.I: global interrupt enable
  ubrr,        \* baud-rate registers written by open()
  ucsr_c,      \* frame-format register written by open()
  \* Usart members
  rx_error, rx_head, rx_tail, tx_head, tx_tail, rx_buff, tx_buff,
  \* mainline control
  pc, stack, op, result,
  \* open(): value of UCSRnB read by the set_bit / clear_bit in progress
  op_reg,
  \* locals of send(char, bool, uint32_t)
  sd_ch, sd_drain, sd_timeout, sd_delays, sd_head_next,
  \* locals of recv()
  rv_ch, rv_rc,
  \* locals of recv(char*, uint16_t, uint32_t) and the caller's buffer
  rb_timeout, rb_delays, rb_rc, rb_bytes, rb_count, ubuf,
  \* local of available()
  av_head,
  \* locals of send(const char*, bool) and send(const char*, uint32_t, bool)
  \* and the caller's buffer
  sb_buf, sb_pos, sb_bytes, sb_drain, sb_rc, sb_timeout,
  \* UartTermios (desktop serial port) on a pseudo terminal pair
  tt_line,     \* bytes the peer has written that are still in transit
  tt_inq,      \* the reader's input queue: received, not yet read
  tt_op,       \* the call made last on either port
  tt_ret,      \* its return value
  tt_rbuf,     \* the bytes the reader's last recv() put in its buffer
  tt_flushed,  \* the reader has called flush(FLUSH_IN)
  tt_pre,      \* bytes that were in transit at that flush
  tt_sent,     \* bytes the peer has sent since that flush
  tt_read,     \* bytes the reader has read since that flush
  tt_n,        \* number of bytes the peer has sent in all
  tt_lost,     \* number of bytes that flush discarded
  \* I2C device (src/include/devices/i2c.hpp) and a caller of read<T>
  int_bits,    \* width of int in the build: 16 on AVR, 32 on STM32 and x86
  i2c_pc,      \* position of the caller inside read<T>
  i2c_size,    \* sizeof(T)
  buff_,       \* the device's scratch buffer (its first MaxSizeof bytes)
  i2c_val,     \* the caller's *val
  i2c_val0,    \* *val before the call
  i2c_status,  \* status the buffer read returned
  i2c_rc,      \* int rc
  i2c_ret,     \* status read<T> returned
  \* history variables
  rx_pend,     \* bytes stored by onRecv() and not yet popped by recv()
  tx_pend,     \* bytes accepted by send() and not yet written to UDR
  h            \* per-call observations (record)

hwVars == <<ucsr_b, udre, udr, txc, tx_shift, tx_active, sreg_i, ubrr,
           ucsr_c>>
rxVars == <<rx_error, rx_head, rx_tail, rx_buff>>
txVars == <<tx_head, tx_tail, tx_buff>>
ctlVars == <<pc, stack, op, result>>
sdVars == <<sd_ch, sd_drain, sd_timeout, sd_delays, sd_head_next>>
rvVars == <<rv_ch, rv_rc>>
rbVars == <<rb_timeout, rb_delays, rb_rc, rb_bytes, rb_count, ubuf>>
sbVars == <<sb_buf, sb_pos, sb_bytes, sb_drain, sb_rc, sb_timeout>>
histVars == <<rx_pend, tx_pend, h>>

ttVars == <<tt_line, tt_inq, tt_op, tt_ret, tt_rbuf, tt_flushed, tt_pre,
           tt_sent, tt_read, tt_n, tt_lost>>
usartVars == <<hwVars, rxVars, txVars, ctlVars, op_reg, sdVars, rvVars,
               rbVars, av_head, sbVars, histVars>>

i2cVars == <<int_bits, i2c_pc, i2c_size, buff_, i2c_val, i2c_val0, i2c_status,
            i2c_rc, i2c_ret>>

vars == <<usartVars, ttVars, i2cVars>>

\* --------------------------------------------------------------- helpers
\* Per-call observations, cleared when a top-level call is finished.
h0 == [full0 |-> FALSE, udre_seen |-> FALSE, open0 |-> FALSE, pumped |-> FALSE, polls |-> 0,
       rv_exp |-> NoByte, rv_err |-> 0, rv_tail0 |-> 0, rv_empty |-> FALSE,
       av_pend |-> 0, discarded |-> 0, fl_nonempty |-> FALSE,
       rb_got |-> <<>>, flushed |-> FALSE, sb_acc |-> <<>>]

\* The following index computed without the wrap to slot 0.
NextIdx_nowrap(i, n) == i + 1

\* Index following i in a ring of n slots.
NextIdx(i, n) == (i + 1) % n

\* Usart::isOpen
isOpen == bit_is_set(ucsr_b, TXEN) \/ bit_is_set(ucsr_b, RXEN)

\* available() computed without the added ring size.
availableOf_nowrap(head, tail) ==
  ((head - tail) % 65536) % BTR_USART_RX_BUFF_SIZE

\* Usart::available: uint16_t bytes = SIZE + rx_head_ - rx_tail_; bytes % SIZE
availableOf(head, tail) == ((BTR_USART_RX_BUFF_SIZE + head - tail) % 65536) % BTR_USART_RX_BUFF_SIZE

\* Bytes held by the receive ring, oldest first.
RECURSIVE RingSeq(_, _, _)
RingSeq(buff, tail, head) ==
  IF tail = head THEN <<>>
  ELSE <<buff[tail]>> \o RingSeq(buff, NextIdx(tail, BTR_USART_RX_BUFF_SIZE), head)

\* Return from the running function to its caller (or to the call site).
Return(val) ==
  /\ result' = val
  /\ IF stack = <<>>
       THEN pc' = "done" /\ stack' = stack
       ELSE pc' = Head(stack) /\ stack' = Tail(stack)
  /\ op' = op

Call(target, ret) ==
  /\ pc' = target
  /\ stack' = <<ret>> \o stack
  /\ UNCHANGED <<op, result>>

Goto(label) == pc' = label /\ UNCHANGED <<stack, op, result>>

\* ------------------------------------------------------------------ Init
\* State after the constructor (lines 175-204) on a device out of reset
\* (transmitted = FALSE), or the state of a closed port that was opened,
\* sent one byte and was closed again (transmitted = TRUE).
InitBuild(transmitted, bits) ==
  /\ ucsr_b = {}
  /\ udre = TRUE /\ udr = 0 /\ txc = transmitted
  /\ tx_shift = FALSE /\ tx_active = FALSE
  /\ sreg_i = FALSE
  /\ ubrr = (IF transmitted THEN BAUD_CALC ELSE 0)
  /\ ucsr_c = (IF transmitted THEN BTR_USART_CONFIG ELSE 0)
  /\ rx_error = 0 /\ rx_head = 0 /\ rx_tail = 0
  /\ tx_head = (IF transmitted THEN 1 ELSE 0)
  /\ tx_tail = (IF transmitted THEN 1 ELSE 0)
  /\ rx_buff = [i \in 0..(BTR_USART_RX_BUFF_SIZE - 1) |-> 0]
  /\ tx_buff = [i \in 0..(BTR_USART_TX_BUFF_SIZE - 1) |->
                  IF transmitted /\ i = 1 THEN 1 ELSE 0]
  /\ pc = "idle" /\ stack = <<>> /\ op = "none" /\ result = 0
  /\ op_reg = {}
  /\ sd_ch = 0 /\ sd_drain = FALSE /\ sd_timeout = 0 /\ sd_delays = 0
  /\ sd_head_next = 0
  /\ rv_ch = 0 /\ rv_rc = 0
  /\ rb_timeout = 0 /\ rb_delays = 0 /\ rb_rc = 0 /\ rb_bytes = 0
  /\ rb_count = 0 /\ ubuf = <<>>
  /\ av_head = 0
  /\ sb_buf = <<>> /\ sb_pos = 0 /\ sb_bytes = 0 /\ sb_drain = FALSE
  /\ sb_rc = 0 /\ sb_timeout = 0
  /\ rx_pend = <<>> /\ tx_pend = <<>>
  /\ h = h0
  /\ tt_line = <<>> /\ tt_inq = <<>> /\ tt_op = "open" /\ tt_ret = 0
  /\ tt_rbuf = <<>> /\ tt_flushed = FALSE /\ tt_pre = <<>>
  /\ tt_sent = <<>> /\ tt_read = <<>> /\ tt_n = 0 /\ tt_lost = 0
  /\ int_bits = bits
  /\ i2c_pc = "idle" /\ i2c_size = 1
  /\ buff_ = [i \in 0..(MaxSizeof - 1) |-> 0]
  /\ i2c_val = 0 /\ i2c_val0 = 0
  /\ i2c_status = U32(I2C_OK, 0) /\ i2c_rc = 0 /\ i2c_ret = U32(I2C_OK, 0)

\* The USART driver is AVR code: its builds have a 16-bit int.
InitWith(transmitted) == InitBuild(transmitted, AvrIntBits)

Init == InitWith(FALSE)

\* The receive-side specification also starts from a port that has
\* transmitted before, so that flush() and close() can return.
InitRx == \E transmitted \in BOOLEAN : InitWith(transmitted)

\* ---------------------------------------------------- interrupt handlers
\* onRecv() that stores the byte without testing for a full ring.
onRecv_overwrite(b, st) ==
  /\ rx_buff' = [rx_buff EXCEPT ![rx_head] = b]
  /\ rx_head' = NextIdx(rx_head, BTR_USART_RX_BUFF_SIZE)
  /\ rx_error' = BitAnd(st, RxErrMask)
  /\ rx_pend' = Append(rx_pend, b)
  /\ UNCHANGED rx_tail

\* Usart::onRecv with the byte b in UDRn and error bits st in UCSRnA.
onRecv(b, st) ==
  LET head_next == NextIdx(rx_head, BTR_USART_RX_BUFF_SIZE)
      err == BitAnd(st, RxErrMask)
  IN /\ IF head_next # rx_tail
          THEN /\ rx_buff' = [rx_buff EXCEPT ![rx_head] = b]
               /\ rx_head' = head_next
               /\ rx_error' = err
               /\ rx_pend' = Append(rx_pend, b)
          ELSE /\ rx_error' = BitOr(err, BTR_USART_OVERFLOW_ERR \div 256)
               /\ UNCHANGED <<rx_buff, rx_head, rx_pend>>
     /\ UNCHANGED rx_tail

\* Usart::onSend
onSend ==
  /\ tx_tail' = NextIdx(tx_tail, BTR_USART_TX_BUFF_SIZE)
  /\ udre' = FALSE
  /\ ucsr_b' = IF tx_head = tx_tail' THEN clear_bit(ucsr_b, UDRIE) ELSE ucsr_b
  /\ udr' = tx_buff[tx_tail]
  /\ tx_pend' = IF tx_pend = <<>> THEN <<>> ELSE Tail(tx_pend)
  /\ UNCHANGED <<tx_head, tx_buff>>

\* ISR(USARTn_RX_vect): receive complete, receive interrupt and global
\* interrupts enabled.
ISR_RXOf(data, status) ==
  /\ sreg_i /\ bit_is_set(ucsr_b, RXCIE) /\ bit_is_set(ucsr_b, RXEN)
  /\ \E b \in data, st \in status : onRecv(b, st)
  /\ UNCHANGED <<i2cVars, op_reg, ttVars, sbVars, hwVars, txVars, ctlVars, sdVars, rvVars, rbVars, av_head,
                 tx_pend, h>>

ISR_RX == ISR_RXOf(Bytes, RxStatus)

\* ISR(USARTn_UDRE_vect): data register empty, its interrupt and global
\* interrupts enabled.
ISR_UDRE ==
  /\ sreg_i /\ bit_is_set(ucsr_b, UDRIE) /\ udre
  /\ onSend
  /\ UNCHANGED <<i2cVars, op_reg, ttVars, sbVars, txc, tx_shift, tx_active, sreg_i, ubrr, ucsr_c, rxVars,
                 ctlVars, sdVars, rvVars, rbVars, av_head, rx_pend,
                 h>>

\* -------------------------------------------------------------- hardware
\* The transmitter moves the data register into the idle shift register.
HwTxLoad ==
  /\ ~udre /\ ~tx_shift /\ tx_active
  /\ udre' = TRUE /\ tx_shift' = TRUE
  /\ UNCHANGED <<i2cVars, op_reg, ttVars, sbVars, ucsr_b, udr, txc, tx_active, sreg_i, ubrr, ucsr_c, rxVars, txVars,
                 ctlVars, sdVars, rvVars, rbVars, av_head, histVars>>

\* The frame has been shifted out; TXC is raised when no new data waits.
\* A transmitter whose TXEN was cleared stops once nothing is pending.
HwTxDone ==
  /\ tx_shift
  /\ tx_shift' = FALSE
  /\ txc' = IF udre THEN TRUE ELSE txc
  /\ tx_active' = IF udre THEN bit_is_set(ucsr_b, TXEN) ELSE tx_active
  /\ UNCHANGED <<i2cVars, op_reg, ttVars, sbVars, ucsr_b, udre, udr, sreg_i, ubrr, ucsr_c, rxVars, txVars,
                 ctlVars, sdVars, rvVars, rbVars, av_head, histVars>>

\* The caller disables or enables global interrupts between two calls.
ToggleInterrupts ==
  /\ pc = "idle"
  /\ sreg_i' = ~sreg_i
  /\ UNCHANGED <<i2cVars, op_reg, ttVars, sbVars, ucsr_b, udre, udr, txc, tx_shift, tx_active, ubrr, ucsr_c, rxVars,
                 txVars, ctlVars, sdVars, rvVars, rbVars, av_head, histVars>>

\* ------------------------------------------------------ mainline: calls
\* A call made by the application while no other call is running.
Enter(name, label) ==
  /\ pc = "idle"
  /\ pc' = label /\ op' = name
  /\ UNCHANGED <<stack, result>>

\* ------------------------------------------------------- Usart::open
open_call ==
  /\ Enter("open", "op_test")
  /\ h' = [h EXCEPT !.open0 = isOpen]
  /\ UNCHANGED <<i2cVars, op_reg, ttVars, sbVars, hwVars, rxVars, txVars, sdVars, rvVars, rbVars,
                 av_head, rx_pend, tx_pend>>

\* open() without the isOpen() test: it configures the port again.
open_test_always ==
  /\ pc = "op_test"
  /\ Goto("op_cfg")
  /\ UNCHANGED <<i2cVars, op_reg, ttVars, sbVars, hwVars, rxVars, txVars, sdVars, rvVars, rbVars,
                 av_head, histVars>>

\* if (true == isOpen()) return 0
open_test ==
  /\ pc = "op_test"
  /\ IF isOpen THEN Return(0) ELSE Goto("op_cfg")
  /\ UNCHANGED <<i2cVars, op_reg, ttVars, sbVars, hwVars, rxVars, txVars, sdVars, rvVars, rbVars, av_head,
                 histVars>>

open_cfg ==
  /\ pc = "op_cfg"
  /\ ubrr' = BAUD_CALC /\ ucsr_c' = BTR_USART_CONFIG
  /\ Goto("op_txen_rd")
  /\ UNCHANGED <<i2cVars, op_reg, ttVars, sbVars, ucsr_b, udre, udr, txc, tx_shift,
                 tx_active, sreg_i, rxVars, txVars, sdVars, rvVars, rbVars,
                 av_head, histVars>>

\* set_bit / clear_bit on *ucsr_b_ is a load, an OR / AND and a store through
\* the register pointer: the load of UCSRnB.  A handler may run before the
\* store.
open_load(from, to) ==
  /\ pc = from
  /\ op_reg' = ucsr_b
  /\ Goto(to)
  /\ UNCHANGED <<i2cVars, ttVars, sbVars, hwVars, rxVars, txVars, sdVars, rvVars,
                 rbVars, av_head, histVars>>

open_txen_load == open_load("op_txen_rd", "op_txen")

\* set_bit(*ucsr_b_, TXEN)
open_txen ==
  /\ pc = "op_txen"
  /\ ucsr_b' = set_bit(op_reg, TXEN) /\ tx_active' = TRUE
  /\ Goto("op_rxen_rd")
  /\ UNCHANGED <<i2cVars, op_reg, ttVars, sbVars, udre, udr, txc, tx_shift, sreg_i,
                 ubrr, ucsr_c, rxVars, txVars, sdVars, rvVars, rbVars,
                 av_head, histVars>>

open_rxen_load == open_load("op_rxen_rd", "op_rxen")

\* set_bit(*ucsr_b_, RXEN)
open_rxen ==
  /\ pc = "op_rxen"
  /\ ucsr_b' = set_bit(op_reg, RXEN)
  /\ Goto("op_rxcie_rd")
  /\ UNCHANGED <<i2cVars, op_reg, ttVars, sbVars, udre, udr, txc, tx_shift, tx_active,
                 sreg_i, ubrr, ucsr_c, rxVars, txVars, sdVars, rvVars, rbVars,
                 av_head, histVars>>

open_rxcie_load == open_load("op_rxcie_rd", "op_rxcie")

\* set_bit(*ucsr_b_, RXCIE)
open_rxcie ==
  /\ pc = "op_rxcie"
  /\ ucsr_b' = set_bit(op_reg, RXCIE)
  /\ Goto("op_udrie_rd")
  /\ UNCHANGED <<i2cVars, op_reg, ttVars, sbVars, udre, udr, txc, tx_shift, tx_active,
                 sreg_i, ubrr, ucsr_c, rxVars, txVars, sdVars, rvVars, rbVars,
                 av_head, histVars>>

open_udrie_load == open_load("op_udrie_rd", "op_udrie")

\* clear_bit(*ucsr_b_, UDRIE); return 0
open_udrie ==
  /\ pc = "op_udrie"
  /\ ucsr_b' = clear_bit(op_reg, UDRIE)
  /\ Return(0)
  /\ UNCHANGED <<i2cVars, op_reg, ttVars, sbVars, udre, udr, txc, tx_shift, tx_active,
                 sreg_i, ubrr, ucsr_c, rxVars, txVars, sdVars, rvVars, rbVars,
                 av_head, histVars>>

\* ------------------------------------------------------ Usart::flush
flush_call ==
  /\ Enter("flush", "fl_test")
  /\ h' = [h EXCEPT !.fl_nonempty = (tx_head # tx_tail)]
  /\ UNCHANGED <<i2cVars, op_reg, ttVars, sbVars, hwVars, rxVars, txVars, sdVars, rvVars, rbVars, av_head,
                 rx_pend, tx_pend>>

\* while (bit_is_set(UCSRnB, UDRIE) || bit_is_clear(UCSRnA, TXC))
flush_test ==
  /\ pc = "fl_test"
  /\ IF bit_is_set(ucsr_b, UDRIE) \/ ~txc THEN Goto("fl_body") ELSE Return(0)
  /\ h' = [h EXCEPT !.flushed = TRUE]
  /\ UNCHANGED <<i2cVars, op_reg, ttVars, sbVars, hwVars, rxVars, txVars, sdVars, rvVars, rbVars,
                 av_head, rx_pend, tx_pend>>

\* if (bit_is_clear(SREG, SREG_I) && bit_is_set(UCSRnB, UDRIE))
\*   if (bit_is_set(UCSRnA, UDRE))
flush_body ==
  /\ pc = "fl_body"
  /\ IF ~sreg_i /\ bit_is_set(ucsr_b, UDRIE) /\ udre
       THEN Goto("fl_pump") ELSE Goto("fl_test")
  /\ UNCHANGED <<i2cVars, op_reg, ttVars, sbVars, hwVars, rxVars, txVars, sdVars, rvVars, rbVars, av_head,
                 histVars>>

flush_pump ==
  /\ pc = "fl_pump"
  /\ onSend
  /\ h' = [h EXCEPT !.pumped = TRUE]
  /\ Goto("fl_test")
  /\ UNCHANGED <<i2cVars, op_reg, ttVars, sbVars, txc, tx_shift, tx_active, sreg_i, ubrr, ucsr_c, rxVars,
                 sdVars, rvVars, rbVars, av_head, rx_pend>>

\* ------------------------------------------------------ Usart::close
close_call ==
  /\ Enter("close", "cl_flush")
  /\ h' = [h EXCEPT !.open0 = isOpen]
  /\ UNCHANGED <<i2cVars, op_reg, ttVars, sbVars, hwVars, rxVars, txVars, sdVars, rvVars, rbVars, av_head,
                 rx_pend, tx_pend>>

close_flush ==
  /\ pc = "cl_flush"
  /\ Call("fl_test", "cl_txen")
  /\ UNCHANGED <<i2cVars, op_reg, ttVars, sbVars, hwVars, rxVars, txVars, sdVars, rvVars, rbVars, av_head,
                 histVars>>

close_txen ==
  /\ pc = "cl_txen"
  /\ ucsr_b' = clear_bit(ucsr_b, TXEN)
  /\ tx_active' = IF udre /\ ~tx_shift THEN FALSE ELSE tx_active
  /\ Goto("cl_rxen")
  /\ UNCHANGED <<i2cVars, op_reg, ttVars, sbVars, udre, udr, txc, tx_shift, sreg_i, ubrr, ucsr_c, rxVars,
                 txVars, sdVars, rvVars, rbVars, av_head, histVars>>

close_rxen ==
  /\ pc = "cl_rxen"
  /\ ucsr_b' = clear_bit(ucsr_b, RXEN)
  /\ Goto("cl_rxcie")
  /\ UNCHANGED <<i2cVars, op_reg, ttVars, sbVars, udre, udr, txc, tx_shift, tx_active, sreg_i, ubrr, ucsr_c, rxVars,
                 txVars, sdVars, rvVars, rbVars, av_head, histVars>>

close_rxcie ==
  /\ pc = "cl_rxcie"
  /\ ucsr_b' = clear_bit(ucsr_b, RXCIE)
  /\ Goto("cl_udrie")
  /\ UNCHANGED <<i2cVars, op_reg, ttVars, sbVars, udre, udr, txc, tx_shift, tx_active, sreg_i, ubrr, ucsr_c, rxVars,
                 txVars, sdVars, rvVars, rbVars, av_head, histVars>>

close_udrie ==
  /\ pc = "cl_udrie"
  /\ ucsr_b' = clear_bit(ucsr_b, UDRIE)
  /\ Goto("cl_reset")
  /\ UNCHANGED <<i2cVars, op_reg, ttVars, sbVars, udre, udr, txc, tx_shift, tx_active, sreg_i, ubrr, ucsr_c, rxVars,
                 txVars, sdVars, rvVars, rbVars, av_head, histVars>>

\* The reset done from the other end of the ring: rx_tail_ = rx_head_.
close_reset_tail ==
  /\ pc = "cl_reset"
  /\ rx_tail' = rx_head
  /\ rx_pend' = <<>>
  /\ h' = [h EXCEPT !.discarded = Len(rx_pend)]
  /\ Return(0)
  /\ UNCHANGED <<i2cVars, op_reg, ttVars, sbVars, hwVars, rx_error, rx_head, rx_buff, txVars, sdVars, rvVars,
                 rbVars, av_head, tx_pend>>

\* rx_head_ = rx_tail_: the unread bytes are discarded.
close_reset ==
  /\ pc = "cl_reset"
  /\ rx_head' = rx_tail
  /\ rx_pend' = <<>>
  /\ h' = [h EXCEPT !.discarded = Len(rx_pend)]
  /\ Return(0)
  /\ UNCHANGED <<i2cVars, op_reg, ttVars, sbVars, hwVars, rx_error, rx_tail, rx_buff, txVars, sdVars, rvVars,
                 rbVars, av_head, tx_pend>>

\* -------------------------------------------------- Usart::available
available_call ==
  /\ Enter("available", "av_head")
  /\ UNCHANGED <<i2cVars, op_reg, ttVars, sbVars, hwVars, rxVars, txVars, sdVars, rvVars, rbVars, av_head,
                 histVars>>

available_head ==
  /\ pc = "av_head"
  /\ av_head' = rx_head
  /\ h' = [h EXCEPT !.av_pend = Len(rx_pend)]
  /\ Goto("av_tail")
  /\ UNCHANGED <<i2cVars, op_reg, ttVars, sbVars, hwVars, rxVars, txVars, sdVars, rvVars, rbVars,
                 rx_pend, tx_pend>>

available_tail ==
  /\ pc = "av_tail"
  /\ Return(availableOf(av_head, rx_tail))
  /\ UNCHANGED <<i2cVars, op_reg, ttVars, sbVars, hwVars, rxVars, txVars, sdVars, rvVars, rbVars, av_head,
                 histVars>>

\* -------------------------------------------------- Usart::recv()
recv_call ==
  /\ Enter("recv", "rv_test")
  /\ UNCHANGED <<i2cVars, op_reg, ttVars, sbVars, hwVars, rxVars, txVars, sdVars, rvVars, rbVars, av_head,
                 histVars>>

\* if (rx_head_ != rx_tail_) ... else return BTR_USART_NO_DATA
recv_test ==
  /\ pc = "rv_test"
  /\ h' = [h EXCEPT !.rv_tail0 = rx_tail, !.rv_empty = (rx_head = rx_tail),
                    !.rv_exp = NoByte, !.rv_err = rx_error]
  /\ IF rx_head # rx_tail THEN Goto("rv_read") ELSE Return(BTR_USART_NO_DATA)
  /\ UNCHANGED <<i2cVars, op_reg, ttVars, sbVars, hwVars, rxVars, txVars, sdVars, rvVars, rbVars, av_head,
                 rx_pend, tx_pend>>

\* recv() that reads the newest stored byte instead of the oldest.
recv_read_newest ==
  /\ pc = "rv_read"
  /\ rv_ch' = rx_buff[(rx_head + BTR_USART_RX_BUFF_SIZE - 1)
                       % BTR_USART_RX_BUFF_SIZE]
  /\ Goto("rv_tail")
  /\ UNCHANGED <<i2cVars, op_reg, ttVars, sbVars, hwVars, rxVars, txVars, sdVars, rv_rc,
                 rbVars, av_head, histVars>>

\* uint8_t ch = rx_buff_[rx_tail_]
recv_read ==
  /\ pc = "rv_read"
  /\ rv_ch' = rx_buff[rx_tail]
  /\ Goto("rv_tail")
  /\ UNCHANGED <<i2cVars, op_reg, ttVars, sbVars, hwVars, rxVars, txVars, sdVars, rv_rc, rbVars, av_head,
                 histVars>>

\* rx_tail_ = (rx_tail_ + 1) % BTR_USART_RX_BUFF_SIZE
recv_tail ==
  /\ pc = "rv_tail"
  /\ rx_tail' = NextIdx(rx_tail, BTR_USART_RX_BUFF_SIZE)
  /\ h' = [h EXCEPT
             !.rv_exp = IF rx_pend = <<>> THEN NoByte ELSE Head(rx_pend),
             !.rb_got = IF op = "recvbuf" /\ rb_timeout > 0 /\ rx_pend # <<>>
                          THEN Append(@, Head(rx_pend)) ELSE @]
  /\ rx_pend' = IF rx_pend = <<>> THEN <<>> ELSE Tail(rx_pend)
  /\ Goto("rv_err")
  /\ UNCHANGED <<i2cVars, op_reg, ttVars, sbVars, hwVars, rx_error, rx_head, rx_buff, txVars, sdVars, rvVars,
                 rbVars, av_head, tx_pend>>

\* recv() that returns the latch unshifted.
recv_err_noshift ==
  /\ pc = "rv_err"
  /\ rv_rc' = rx_error
  /\ h' = [h EXCEPT !.rv_err = rx_error]
  /\ Goto("rv_clr")
  /\ UNCHANGED <<i2cVars, op_reg, ttVars, sbVars, hwVars, rxVars, txVars, sdVars, rv_ch, rbVars, av_head,
                 rx_pend, tx_pend>>

\* uint16_t rc = (rx_error_ << 8)
recv_err ==
  /\ pc = "rv_err"
  /\ rv_rc' = (rx_error * 256) % 65536
  /\ h' = [h EXCEPT !.rv_err = rx_error]
  /\ Goto("rv_clr")
  /\ UNCHANGED <<i2cVars, op_reg, ttVars, sbVars, hwVars, rxVars, txVars, sdVars, rv_ch, rbVars, av_head,
                 rx_pend, tx_pend>>

\* rx_error_ = 0
recv_clr ==
  /\ pc = "rv_clr"
  /\ rx_error' = 0
  /\ Goto("rv_ret")
  /\ UNCHANGED <<i2cVars, op_reg, ttVars, sbVars, hwVars, rx_head, rx_tail, rx_buff, txVars, sdVars, rvVars,
                 rbVars, av_head, histVars>>

\* return (rc + ch)
recv_ret ==
  /\ pc = "rv_ret"
  /\ Return((rv_rc + rv_ch) % 65536)
  /\ rv_ch' = 0 /\ rv_rc' = 0
  /\ UNCHANGED <<i2cVars, op_reg, ttVars, sbVars, hwVars, rxVars, txVars, sdVars, rbVars, av_head, histVars>>

\* ------------------------------- Usart::send(char, bool, uint32_t)
send_callOf(data, drains, timeouts) ==
  /\ Enter("send", "sd_init")
  /\ \E c \in data, d \in drains, t \in timeouts :
       sd_ch' = c /\ sd_drain' = d /\ sd_timeout' = t
  /\ h' = [h EXCEPT
             !.full0 = (NextIdx(tx_head, BTR_USART_TX_BUFF_SIZE) = tx_tail)]
  /\ UNCHANGED <<i2cVars, op_reg, ttVars, sbVars, hwVars, rxVars, txVars, sd_delays, sd_head_next, rvVars,
                 rbVars, av_head, rx_pend, tx_pend>>

send_call == send_callOf(TxBytes, BOOLEAN, Timeouts)

\* uint32_t delays = 0; head_next = (tx_head_ + 1) % BTR_USART_TX_BUFF_SIZE
send_init ==
  /\ pc = "sd_init"
  /\ sd_delays' = 0
  /\ sd_head_next' = NextIdx(tx_head, BTR_USART_TX_BUFF_SIZE)
  /\ Goto("sd_test")
  /\ UNCHANGED <<i2cVars, op_reg, ttVars, sbVars, hwVars, rxVars, txVars, sd_ch, sd_drain, sd_timeout, rvVars,
                 rbVars, av_head, histVars>>

\* while (head_next == tx_tail_)
\* send() without the test for a full ring.
send_test_nofull ==
  /\ pc = "sd_test"
  /\ Goto("sd_store")
  /\ UNCHANGED <<i2cVars, op_reg, ttVars, sbVars, hwVars, rxVars, txVars, sdVars, rvVars,
                 rbVars, av_head, histVars>>

\* if (head_next == tx_tail_) ... the ring is full
send_test ==
  /\ pc = "sd_test"
  /\ IF sd_head_next = tx_tail THEN Goto("sd_full") ELSE Goto("sd_store")
  /\ UNCHANGED <<i2cVars, op_reg, ttVars, sbVars, hwVars, rxVars, txVars, sdVars, rvVars, rbVars, av_head,
                 histVars>>

\* send() without the manual call of onSend(): it only waits.
send_full_nopump ==
  /\ pc = "sd_full"
  /\ h' = [h EXCEPT !.udre_seen = @ \/ (~sreg_i /\ udre)]
  /\ Goto("sd_wait")
  /\ UNCHANGED <<i2cVars, op_reg, ttVars, sbVars, hwVars, rxVars, txVars, sdVars, rvVars, rbVars, av_head,
                 rx_pend, tx_pend>>

\* if (bit_is_clear(SREG, SREG_I)) if (bit_is_set(UCSRnA, UDRE))
send_full ==
  /\ pc = "sd_full"
  /\ h' = [h EXCEPT !.udre_seen = @ \/ (~sreg_i /\ udre)]
  /\ IF ~sreg_i /\ udre THEN Goto("sd_pump") ELSE Goto("sd_wait")
  /\ UNCHANGED <<i2cVars, op_reg, ttVars, sbVars, hwVars, rxVars, txVars, sdVars, rvVars, rbVars, av_head,
                 rx_pend, tx_pend>>

\* onSend(); continue;
send_pump ==
  /\ pc = "sd_pump"
  /\ onSend
  /\ h' = [h EXCEPT !.pumped = TRUE]
  /\ Goto("sd_test")
  /\ UNCHANGED <<i2cVars, op_reg, ttVars, sbVars, txc, tx_shift, tx_active, sreg_i, ubrr, ucsr_c, rxVars,
                 sdVars, rvVars, rbVars, av_head, rx_pend>>

\* send() that writes its byte into the slot before it gives up.
send_wait_store ==
  /\ pc = "sd_wait"
  /\ IF sd_timeout > 0
       THEN /\ sd_delays' = sd_delays + BTR_USART_TX_DELAY
            /\ IF sd_delays' >= sd_timeout
                 THEN /\ Return(0 - 1)
                      /\ tx_buff' = [tx_buff EXCEPT ![sd_head_next] = sd_ch]
                 ELSE /\ Goto("sd_test")
                      /\ tx_buff' = tx_buff
       ELSE /\ sd_delays' = sd_delays
            /\ tx_buff' = tx_buff
            /\ Goto("sd_test")
  /\ UNCHANGED <<i2cVars, op_reg, ttVars, sbVars, hwVars, rxVars, tx_head, tx_tail,
                 sd_ch, sd_drain, sd_timeout, sd_head_next, rvVars, rbVars,
                 av_head, histVars>>

\* if (timeout > 0) { _delay_ms(DELAY); delays += DELAY;
\*                    if (delays >= timeout) return -1; }
send_wait ==
  /\ pc = "sd_wait"
  /\ IF sd_timeout > 0
       THEN /\ sd_delays' = sd_delays + BTR_USART_TX_DELAY
            /\ IF sd_delays' >= sd_timeout THEN Return(0 - 1)
                                           ELSE Goto("sd_test")
       ELSE /\ sd_delays' = sd_delays
            /\ Goto("sd_test")
  /\ UNCHANGED <<i2cVars, op_reg, ttVars, sbVars, hwVars, rxVars, txVars, sd_ch, sd_drain, sd_timeout,
                 sd_head_next, rvVars, rbVars, av_head, histVars>>

\* tx_buff_[head_next] = ch
send_store ==
  /\ pc = "sd_store"
  /\ tx_buff' = [tx_buff EXCEPT ![sd_head_next] = sd_ch]
  /\ Goto("sd_atomic")
  /\ UNCHANGED <<i2cVars, op_reg, ttVars, sbVars, hwVars, rxVars, tx_head, tx_tail, sdVars, rvVars, rbVars,
                 av_head, histVars>>

\* ATOMIC_BLOCK(ATOMIC_RESTORESTATE) { tx_head_ = head_next; set UDRIE }
send_atomic ==
  /\ pc = "sd_atomic"
  /\ tx_head' = sd_head_next
  /\ ucsr_b' = set_bit(ucsr_b, UDRIE)
  /\ tx_pend' = Append(tx_pend, sd_ch)
  /\ h' = [h EXCEPT !.sb_acc = IF op \in {"sendstr", "sendbuf"}
                                  THEN Append(@, sd_ch) ELSE @]
  /\ Goto("sd_drain")
  /\ UNCHANGED <<i2cVars, op_reg, ttVars, sbVars, udre, udr, txc, tx_shift, tx_active, sreg_i, ubrr,
                 ucsr_c, rxVars, tx_tail, tx_buff, sdVars, rvVars, rbVars,
                 av_head, rx_pend>>

\* if (true == drain) flush(DirectionType::OUT)
send_drain ==
  /\ pc = "sd_drain"
  /\ IF sd_drain THEN Call("fl_test", "sd_ret") ELSE Goto("sd_ret")
  /\ UNCHANGED <<i2cVars, op_reg, ttVars, sbVars, hwVars, rxVars, txVars, sdVars, rvVars, rbVars, av_head,
                 histVars>>

send_ret ==
  /\ pc = "sd_ret"
  /\ Return(0)
  /\ UNCHANGED <<i2cVars, op_reg, ttVars, sbVars, hwVars, rxVars, txVars, sdVars, rvVars, rbVars, av_head,
                 histVars>>

\* ---------------------------- Usart::recv(char*, uint16_t, uint32_t)
recvbuf_callOf(counts, timeouts) ==
  /\ Enter("recvbuf", "rb_init")
  /\ \E n \in counts, t \in timeouts :
       /\ rb_count' = n /\ rb_timeout' = t
       /\ ubuf' = [i \in 1..n |-> Untouched]
  /\ UNCHANGED <<i2cVars, op_reg, ttVars, sbVars, hwVars, rxVars, txVars, sdVars, rvVars, rb_delays, rb_rc,
                 rb_bytes, av_head, histVars>>

recvbuf_call == recvbuf_callOf(1..MaxCount, Timeouts)

\* uint32_t delays = 0; uint16_t rc = 0;
recvbuf_init ==
  /\ pc = "rb_init"
  /\ rb_delays' = 0 /\ rb_rc' = 0 /\ rb_bytes' = rb_count
  /\ Goto("rb_loop")
  /\ UNCHANGED <<i2cVars, op_reg, ttVars, sbVars, hwVars, rxVars, txVars, sdVars, rvVars, rb_timeout, rb_count,
                 ubuf, av_head, histVars>>

\* while (bytes > 0) { uint16_t ch = recv(); ... } return rc;
recvbuf_loop ==
  /\ pc = "rb_loop"
  /\ IF rb_bytes > 0 THEN Call("rv_test", "rb_check") ELSE Return(rb_rc)
  /\ UNCHANGED <<i2cVars, op_reg, ttVars, sbVars, hwVars, rxVars, txVars, sdVars, rvVars, rbVars, av_head,
                 histVars>>

\* The body of the loop after recv() returned ch (held in result).
recvbuf_check ==
  /\ pc = "rb_check"
  /\ IF BitAnd(BTR_USART_NO_DATA, result) # 0
       THEN /\ h' = [h EXCEPT !.polls = IF h.polls < MaxPolls
                                          THEN h.polls + 1 ELSE h.polls]
            /\ UNCHANGED <<ubuf, rb_bytes>>
            /\ IF rb_timeout > 0
                 THEN /\ rb_delays' = rb_delays + BTR_USART_RX_DELAY
                      /\ IF rb_delays' >= rb_timeout
                           THEN /\ rb_rc' = BitOr(rb_rc, BTR_USART_TIMEDOUT_ERR)
                                /\ Return(rb_rc')
                           ELSE /\ rb_rc' = rb_rc
                                /\ Goto("rb_loop")
                 ELSE /\ UNCHANGED <<rb_delays, rb_rc>>
                      /\ Goto("rb_loop")
       ELSE /\ rb_rc' = BitOr(rb_rc, BitAnd(result, 65280))
            /\ ubuf' = [ubuf EXCEPT ![rb_count - rb_bytes + 1] = result % 256]
            /\ rb_bytes' = rb_bytes - 1
            /\ Goto("rb_loop")
            /\ UNCHANGED <<rb_delays, h>>
  /\ UNCHANGED <<i2cVars, op_reg, ttVars, sbVars, hwVars, rxVars, txVars, sdVars, rvVars, rb_timeout, rb_count,
                 av_head, rx_pend, tx_pend>>

\* ------------------------------------ Usart::send(const char*, bool)
sendstr_call ==
  /\ Enter("sendstr", "ss_loop")
  /\ \E data \in TxData, d \in BOOLEAN, t \in DefaultTimeouts :
       /\ sb_buf' = data \o <<0>> /\ sb_drain' = d /\ sb_timeout' = t
  /\ sb_pos' = 1 /\ sb_rc' = 0 /\ sb_bytes' = 0
  /\ UNCHANGED <<i2cVars, op_reg, ttVars, hwVars, rxVars, txVars, sdVars, rvVars, rbVars, av_head,
                 histVars>>

\* while (*buff) { rc = send(*buff++, false) ...
sendstr_loop ==
  /\ pc = "ss_loop"
  /\ IF sb_buf[sb_pos] # 0
       THEN /\ sd_ch' = sb_buf[sb_pos] /\ sd_drain' = FALSE
            /\ sd_timeout' = sb_timeout
            /\ sb_pos' = sb_pos + 1
            /\ Call("sd_init", "ss_check")
       ELSE /\ Goto("ss_flush")
            /\ UNCHANGED <<sd_ch, sd_drain, sd_timeout, sb_pos>>
  /\ UNCHANGED <<i2cVars, op_reg, ttVars, hwVars, rxVars, txVars, sd_delays, sd_head_next, rvVars,
                 rbVars, av_head, sb_buf, sb_bytes, sb_drain, sb_rc,
                 sb_timeout, histVars>>

\* ... if (0 != rc) break; }
sendstr_check ==
  /\ pc = "ss_check"
  /\ sb_rc' = result
  /\ IF result # 0 THEN Goto("ss_flush") ELSE Goto("ss_loop")
  /\ UNCHANGED <<i2cVars, op_reg, ttVars, hwVars, rxVars, txVars, sdVars, rvVars, rbVars, av_head,
                 sb_buf, sb_pos, sb_bytes, sb_drain, sb_timeout, histVars>>

\* if (0 == rc && true == drain) flush(DirectionType::OUT)
sendstr_flush ==
  /\ pc = "ss_flush"
  /\ IF sb_rc = 0 /\ sb_drain THEN Call("fl_test", "ss_ret")
                               ELSE Goto("ss_ret")
  /\ UNCHANGED <<i2cVars, op_reg, ttVars, hwVars, rxVars, txVars, sdVars, rvVars, rbVars, av_head,
                 sbVars, histVars>>

sendstr_ret ==
  /\ pc = "ss_ret"
  /\ Return(sb_rc)
  /\ UNCHANGED <<i2cVars, op_reg, ttVars, hwVars, rxVars, txVars, sdVars, rvVars, rbVars, av_head,
                 sbVars, histVars>>

\* -------------------------- Usart::send(const char*, uint32_t, bool)
sendbuf_call ==
  /\ Enter("sendbuf", "sb_loop")
  /\ \E data \in TxData, d \in BOOLEAN, t \in DefaultTimeouts :
       /\ sb_buf' = data /\ sb_bytes' = Len(data)
       /\ sb_drain' = d /\ sb_timeout' = t
  /\ sb_pos' = 1 /\ sb_rc' = 0
  /\ UNCHANGED <<i2cVars, op_reg, ttVars, hwVars, rxVars, txVars, sdVars, rvVars, rbVars, av_head,
                 histVars>>

\* send() that goes on with the next byte after a failed one.
sendbuf_check_nobreak ==
  /\ pc = "sb_check"
  /\ sb_rc' = result
  /\ sb_pos' = sb_pos + 1
  /\ Goto("sb_loop")
  /\ UNCHANGED <<i2cVars, op_reg, ttVars, hwVars, rxVars, txVars, sdVars, rvVars, rbVars, av_head,
                 sb_buf, sb_bytes, sb_drain, sb_timeout, histVars>>

\* while (bytes-- > 0) { rc = send(*buff, false) ...
\* (the decrement of a zero count wraps; that value is never read again)
sendbuf_loop ==
  /\ pc = "sb_loop"
  /\ sb_bytes' = IF sb_bytes > 0 THEN sb_bytes - 1 ELSE 0
  /\ IF sb_bytes > 0
       THEN /\ sd_ch' = sb_buf[sb_pos] /\ sd_drain' = FALSE
            /\ sd_timeout' = sb_timeout
            /\ Call("sd_init", "sb_check")
       ELSE /\ Goto("sb_flush")
            /\ UNCHANGED <<sd_ch, sd_drain, sd_timeout>>
  /\ UNCHANGED <<i2cVars, op_reg, ttVars, hwVars, rxVars, txVars, sd_delays, sd_head_next, rvVars,
                 rbVars, av_head, sb_buf, sb_pos, sb_drain, sb_rc,
                 sb_timeout, histVars>>

\* ... if (0 != rc) break; ++buff; }
sendbuf_check ==
  /\ pc = "sb_check"
  /\ sb_rc' = result
  /\ IF result # 0
       THEN Goto("sb_flush") /\ sb_pos' = sb_pos
       ELSE Goto("sb_loop") /\ sb_pos' = sb_pos + 1
  /\ UNCHANGED <<i2cVars, op_reg, ttVars, hwVars, rxVars, txVars, sdVars, rvVars, rbVars, av_head,
                 sb_buf, sb_bytes, sb_drain, sb_timeout, histVars>>

\* if (0 == rc && true == drain) flush(DirectionType::OUT)
sendbuf_flush ==
  /\ pc = "sb_flush"
  /\ IF sb_rc = 0 /\ sb_drain THEN Call("fl_test", "sb_ret")
                               ELSE Goto("sb_ret")
  /\ UNCHANGED <<i2cVars, op_reg, ttVars, hwVars, rxVars, txVars, sdVars, rvVars, rbVars, av_head,
                 sbVars, histVars>>

sendbuf_ret ==
  /\ pc = "sb_ret"
  /\ Return(sb_rc)
  /\ UNCHANGED <<i2cVars, op_reg, ttVars, hwVars, rxVars, txVars, sdVars, rvVars, rbVars, av_head,
                 sbVars, histVars>>

\* ------------------------------------------------------------ call site
\* The application takes the result; the frame of the call is gone.
Finish ==
  /\ pc = "done"
  /\ pc' = "idle" /\ op' = "none" /\ result' = 0 /\ stack' = <<>>
  /\ op_reg' = {}
  /\ sd_ch' = 0 /\ sd_drain' = FALSE /\ sd_timeout' = 0 /\ sd_delays' = 0
  /\ sd_head_next' = 0
  /\ rb_timeout' = 0 /\ rb_delays' = 0 /\ rb_rc' = 0 /\ rb_bytes' = 0
  /\ rb_count' = 0 /\ ubuf' = <<>>
  /\ av_head' = 0
  /\ sb_buf' = <<>> /\ sb_pos' = 0 /\ sb_bytes' = 0 /\ sb_drain' = FALSE
  /\ sb_rc' = 0 /\ sb_timeout' = 0
  /\ h' = h0
  /\ UNCHANGED <<i2cVars, ttVars, hwVars, rxVars, txVars, rvVars, rx_pend, tx_pend>>

\* ------------------------------------------------------- specifications
OpenSteps ==
  \/ open_call \/ open_test \/ open_cfg
  \/ open_txen_load \/ open_txen \/ open_rxen_load \/ open_rxen
  \/ open_rxcie_load \/ open_rxcie \/ open_udrie_load \/ open_udrie

CloseSteps ==
  \/ close_call \/ close_flush \/ close_txen \/ close_rxen \/ close_rxcie
  \/ close_udrie \/ close_reset

FlushSteps == flush_call \/ flush_test \/ flush_body

SendSteps ==
  \/ send_call \/ send_init \/ send_test \/ send_full \/ send_pump
  \/ send_wait \/ send_store \/ send_atomic \/ send_drain \/ send_ret

RecvSteps ==
  \/ recv_call \/ recv_test \/ recv_read \/ recv_tail \/ recv_err \/ recv_clr
  \/ recv_ret

RecvBufSteps == recvbuf_call \/ recvbuf_init \/ recvbuf_loop \/ recvbuf_check

AvailableSteps == available_call \/ available_head \/ available_tail

\* The whole driver.
Next ==
  \/ ISR_RX \/ ISR_UDRE \/ HwTxLoad \/ HwTxDone \/ ToggleInterrupts
  \/ OpenSteps \/ CloseSteps \/ FlushSteps \/ flush_pump \/ SendSteps
  \/ RecvSteps \/ RecvBufSteps \/ AvailableSteps \/ Finish

Spec == Init /\ [][Next]_vars

\* The transmit side: the application never receives and no byte arrives.
NextTx ==
  \/ ISR_UDRE \/ HwTxLoad \/ HwTxDone \/ ToggleInterrupts
  \/ OpenSteps \/ CloseSteps \/ FlushSteps \/ flush_pump \/ SendSteps
  \/ Finish

SpecTx == Init /\ [][NextTx]_vars

\* The processor keeps executing the mainline function that is running: a
\* started call takes its next step unless it has returned.
MainlineTx ==
  \/ open_test \/ open_cfg
  \/ open_txen_load \/ open_txen \/ open_rxen_load \/ open_rxen
  \/ open_rxcie_load \/ open_rxcie \/ open_udrie_load \/ open_udrie
  \/ close_flush \/ close_txen \/ close_rxen \/ close_rxcie \/ close_udrie
  \/ close_reset
  \/ flush_test \/ flush_body \/ flush_pump
  \/ send_init \/ send_test \/ send_full \/ send_pump \/ send_wait
  \/ send_store \/ send_atomic \/ send_drain \/ send_ret

FairSpecTx == SpecTx /\ WF_vars(MainlineTx)

\* The receive side: the application never sends (so the transmit ring stays
\* empty and flush() never has a byte to pump).
NextRx ==
  \/ ISR_RX \/ ToggleInterrupts
  \/ OpenSteps \/ CloseSteps \/ FlushSteps
  \/ RecvSteps \/ RecvBufSteps \/ AvailableSteps \/ Finish

SpecRx == InitRx /\ [][NextRx]_vars

\* The processor keeps executing the mainline function that is running.
MainlineRx ==
  \/ open_test \/ open_cfg
  \/ open_txen_load \/ open_txen \/ open_rxen_load \/ open_rxen
  \/ open_rxcie_load \/ open_rxcie \/ open_udrie_load \/ open_udrie
  \/ close_flush \/ close_txen \/ close_rxen \/ close_rxcie \/ close_udrie
  \/ close_reset
  \/ flush_test \/ flush_body
  \/ available_head \/ available_tail
  \/ recv_test \/ recv_read \/ recv_tail \/ recv_err \/ recv_clr \/ recv_ret
  \/ recvbuf_init \/ recvbuf_loop \/ recvbuf_check

FairSpecRx == SpecRx /\ WF_vars(MainlineRx)

\* Every operation of the port together, with the smallest inputs: one data
\* value in each direction, no receive error bits, send(byte, false, 0) and
\* recv(buffer, 1, MaxTimeout).
ISR_RX_plain == ISR_RXOf({1}, {0})

send_call_plain == send_callOf({1}, {FALSE}, {0})

recvbuf_call_plain == recvbuf_callOf({1}, {MaxTimeout})

NextPort ==
  \/ ISR_RX_plain \/ ISR_UDRE \/ HwTxLoad \/ HwTxDone \/ ToggleInterrupts
  \/ OpenSteps \/ CloseSteps \/ FlushSteps \/ flush_pump
  \/ send_call_plain \/ send_init \/ send_test \/ send_full \/ send_pump
  \/ send_wait \/ send_store \/ send_atomic \/ send_drain \/ send_ret
  \/ RecvSteps \/ AvailableSteps
  \/ recvbuf_call_plain \/ recvbuf_init \/ recvbuf_loop \/ recvbuf_check
  \/ Finish

SpecPort == Init /\ [][NextPort]_vars

\* The transmit side driven by the buffer forms of send(): the single-byte
\* send() runs only as their callee.
SendStrSteps ==
  \/ sendstr_call \/ sendstr_loop \/ sendstr_check \/ sendstr_flush
  \/ sendstr_ret

SendBufSteps ==
  \/ sendbuf_call \/ sendbuf_loop \/ sendbuf_check \/ sendbuf_flush
  \/ sendbuf_ret

NextTxBuf ==
  \/ ISR_UDRE \/ HwTxLoad \/ HwTxDone \/ ToggleInterrupts
  \/ OpenSteps \/ CloseSteps \/ flush_test \/ flush_body \/ flush_pump
  \/ send_init \/ send_test \/ send_full \/ send_pump \/ send_wait
  \/ send_store \/ send_atomic \/ send_drain \/ send_ret
  \/ SendStrSteps \/ SendBufSteps \/ Finish

SpecTxBuf == Init /\ [][NextTxBuf]_vars

\* ------------------------------------------------- btr::UartTermios
\* The desktop serial port, as its declaration documents it and its test
\* uses it: reader_ and sender_ are the two ends of a pseudo terminal pair;
\* every call is one system call.
SentData == UNION {[1..n -> Bytes] : n \in 1..2}

\* sender_.send(buff, bytes, drain): returns the number of bytes written;
\* with drain it blocks until all output has been transmitted.
termios_send ==
  /\ \E data \in SentData, drain \in BOOLEAN :
       /\ tt_n + Len(data) <= MaxSent
       /\ IF drain
            THEN tt_inq' = tt_inq \o tt_line \o data /\ tt_line' = <<>>
            ELSE tt_line' = tt_line \o data /\ tt_inq' = tt_inq
       /\ tt_ret' = Len(data) /\ tt_n' = tt_n + Len(data)
       /\ tt_sent' = IF tt_flushed THEN tt_sent \o data ELSE tt_sent
  /\ tt_op' = "send"
  /\ UNCHANGED <<tt_rbuf, tt_flushed, tt_pre, tt_read, tt_lost, usartVars, i2cVars>>

\* The line delivers the oldest byte in transit to the reader's input queue.
pty_deliver ==
  /\ tt_line # <<>>
  /\ tt_inq' = Append(tt_inq, Head(tt_line))
  /\ tt_line' = Tail(tt_line)
  /\ UNCHANGED <<tt_op, tt_ret, tt_rbuf, tt_flushed, tt_pre, tt_sent, tt_read,
                 tt_n, tt_lost, usartVars, i2cVars>>

\* flush(FLUSH_IN) that leaves the input queue as it is.
termios_flush_in_keep ==
  /\ tt_op' = "flush" /\ tt_ret' = 0
  /\ tt_flushed' = TRUE /\ tt_pre' = tt_line
  /\ tt_sent' = <<>> /\ tt_read' = <<>>
  /\ tt_lost' = 0
  /\ UNCHANGED <<tt_inq, tt_line, tt_rbuf, tt_n, usartVars, i2cVars>>

\* reader_.flush(FLUSH_IN): flushes data received but not read.
termios_flush_in ==
  /\ tt_inq' = <<>>
  /\ tt_op' = "flush" /\ tt_ret' = 0
  /\ tt_flushed' = TRUE /\ tt_pre' = tt_line
  /\ tt_sent' = <<>> /\ tt_read' = <<>>
  /\ tt_lost' = Len(tt_inq)
  /\ UNCHANGED <<tt_line, tt_rbuf, tt_n, usartVars, i2cVars>>

\* reader_.available(): bytes available on the serial port.
termios_available ==
  /\ tt_op' = "available" /\ tt_ret' = Len(tt_inq)
  /\ UNCHANGED <<tt_line, tt_inq, tt_rbuf, tt_flushed, tt_pre, tt_sent,
                 tt_read, tt_n, tt_lost, usartVars, i2cVars>>

\* reader_.recv(buff, bytes): reads up to bytes bytes that have been received
\* (none when the timeout passes without data); returns the number read.
termios_recv ==
  /\ \E bytes \in 1..MaxLen :
       LET k == IF bytes < Len(tt_inq) THEN bytes ELSE Len(tt_inq) IN
       /\ tt_rbuf' = SubSeq(tt_inq, 1, k)
       /\ tt_inq' = SubSeq(tt_inq, k + 1, Len(tt_inq))
       /\ tt_ret' = k
  /\ tt_read' = IF tt_flushed THEN tt_read \o tt_rbuf' ELSE tt_read
  /\ tt_op' = "recv"
  /\ UNCHANGED <<tt_line, tt_flushed, tt_pre, tt_sent, tt_n, tt_lost,
                 usartVars, i2cVars>>

NextTermios ==
  \/ termios_send \/ pty_deliver \/ termios_flush_in \/ termios_available
  \/ termios_recv

SpecTermios == Init /\ [][NextTermios]_vars

\* ------------------------------------------------------ I2C::read<T>
\* The caller passes a T* val; *val holds some earlier value.
i2c_read_call ==
  /\ i2c_pc = "idle"
  /\ \E n \in 1..MaxSizeof, v \in I2cBytes :
       i2c_size' = n /\ i2c_val' = v /\ i2c_val0' = v
  /\ i2c_pc' = "rd_read"
  /\ UNCHANGED <<int_bits, buff_, i2c_status, i2c_rc, i2c_ret, usartVars,
                 ttVars>>

\* I2C::read(addr, reg, buff_, sizeof(T)): on success all count bytes are in
\* the scratch buffer and the payload is count; on an error the transfer
\* stopped after k < count bytes.
i2c_read_buffer ==
  /\ i2c_pc = "rd_read"
  /\ \E cls \in {I2C_OK} \cup I2cErrors, k \in 0..i2c_size,
        data \in [0..(MaxSizeof - 1) -> I2cBytes] :
       /\ (cls = I2C_OK) => (k = i2c_size)
       /\ (cls # I2C_OK) => (k < i2c_size)
       /\ buff_' = [i \in 0..(MaxSizeof - 1) |->
                      IF i < k THEN data[i] ELSE buff_[i]]
       /\ i2c_status' = U32(cls, k)
  /\ i2c_pc' = "rd_rc"
  /\ UNCHANGED <<int_bits, i2c_size, i2c_val, i2c_val0, i2c_rc, i2c_ret,
                 usartVars, ttVars>>

\* int rc = I2C::read(addr, reg, buff_, sizeof(T))
i2c_read_rc ==
  /\ i2c_pc = "rd_rc"
  /\ i2c_rc' = IntOf(int_bits, i2c_status)
  /\ i2c_pc' = "rd_test"
  /\ UNCHANGED <<int_bits, i2c_size, buff_, i2c_val, i2c_val0, i2c_status,
                 i2c_ret, usartVars, ttVars>>

\* if (is_ok(rc)) ValueCodec::decodeFixedInt(buff_, val, sizeof(T), true)
i2c_read_decode ==
  /\ i2c_pc = "rd_test"
  /\ i2c_val' = IF is_ok(U32Of(i2c_rc))
                  THEN decodeFixedInt(buff_, i2c_size) ELSE i2c_val
  /\ i2c_pc' = "rd_ret"
  /\ UNCHANGED <<int_bits, i2c_size, buff_, i2c_val0, i2c_status, i2c_rc,
                 i2c_ret, usartVars, ttVars>>

\* return rc
i2c_read_ret ==
  /\ i2c_pc = "rd_ret"
  /\ i2c_ret' = U32Of(i2c_rc)
  /\ i2c_pc' = "done"
  /\ UNCHANGED <<int_bits, i2c_size, buff_, i2c_val, i2c_val0, i2c_status,
                 i2c_rc, usartVars, ttVars>>

\* The caller takes the status; the scratch buffer stays as it is.
i2c_finish ==
  /\ i2c_pc = "done"
  /\ i2c_pc' = "idle"
  /\ i2c_rc' = 0
  /\ UNCHANGED <<int_bits, i2c_size, buff_, i2c_val, i2c_val0, i2c_status,
                 i2c_ret, usartVars, ttVars>>

\* The typed read in a build of either int width.
InitI2C == \E bits \in IntWidths : InitBuild(FALSE, bits)

NextI2C ==
  \/ i2c_read_call \/ i2c_read_buffer \/ i2c_read_rc \/ i2c_read_decode
  \/ i2c_read_ret \/ i2c_finish

SpecI2C == InitI2C /\ [][NextI2C]_vars

\* ================================================================ claims

\* C1: available() equals the number of bytes stored by onRecv() and not
\* yet returned by recv() (in every state the index difference equals that
\* number; a call returns the number at its read of rx_head), and it never
\* exceeds N - 1.
C1_AvailableCount ==
  /\ availableOf(rx_head, rx_tail) = Len(rx_pend)
  /\ Len(rx_pend) <= BTR_USART_RX_BUFF_SIZE - 1
  /\ (pc = "done" /\ op = "available") =>
       (result = h.av_pend /\ result <= BTR_USART_RX_BUFF_SIZE - 1)

\* available() has returned N - 1 for a full receive ring.
C1_Witness ==
  /\ pc = "done" /\ op = "available"
  /\ result = BTR_USART_RX_BUFF_SIZE - 1
  /\ rx_head < rx_tail

\* C2: every byte onSend() writes to the data register is the oldest byte
\* that send() accepted and that was not yet written: the transmitted
\* sequence is the accepted sequence (stated for an open port).
C2_TransmitOrder ==
  [][(isOpen /\ tx_tail' # tx_tail)
       => (tx_pend # <<>> /\ udr' = Head(tx_pend))]_vars

\* C3: recv(buffer, count, 0) on an empty receive ring of an open port
\* returns right after its first poll, with a no-data / timeout status and
\* the buffer untouched.
C3_Timeout0ReturnsNoData ==
  (/\ op = "recvbuf" /\ rb_timeout = 0 /\ isOpen
   /\ h.polls >= 1 /\ h.rv_empty /\ rb_bytes = rb_count)
  => /\ pc = "done"
     /\ BitAnd(result, BTR_USART_NO_DATA + BTR_USART_TIMEDOUT_ERR) # 0
     /\ \A i \in DOMAIN ubuf : ubuf[i] = Untouched

\* C4: close() on a closed port returns: its flush() is never left waiting
\* for a transmit-complete flag that nothing in the transmitter will raise.
C4_CloseOnClosedReturns ==
  ~(/\ op = "close" /\ ~h.open0 /\ pc = "fl_body"
    /\ bit_is_clear(ucsr_b, UDRIE) /\ ~txc /\ ~tx_shift /\ udre)

\* The call C5 is about, and what each of its results implies.
C5_Case ==
  op = "send" /\ h.full0 /\ ~sreg_i /\ sd_timeout > 0 /\ ~sd_drain

C5_Returns ==
  /\ C5_Case => sd_delays <= sd_timeout
  /\ (C5_Case /\ pc = "done" /\ result = 0)
       => /\ h.udre_seen /\ h.pumped /\ sd_delays < sd_timeout
          /\ tx_head = sd_head_next /\ tx_buff[tx_head] = sd_ch
  /\ (C5_Case /\ pc = "done" /\ result # 0)
       => /\ result = 0 - 1 /\ ~h.udre_seen /\ ~h.pumped
          /\ sd_delays >= sd_timeout
          /\ NextIdx(tx_head, BTR_USART_TX_BUFF_SIZE) = sd_head_next

\* C5: send(byte, drain = false, timeout > 0) called with the transmit ring
\* full and global interrupts disabled: it returns 0 with the byte enqueued
\* only after the hardware reported data-register-empty and onSend() was
\* called by hand before the accumulated delay reached timeout; it returns
\* the timeout error only when the delay reached timeout without such a
\* report; the delay never passes timeout, and the call always returns.
C5_FullRingNoInterrupts ==
  /\ []C5_Returns
  /\ (C5_Case /\ pc = "sd_init") ~> (pc = "done")

\* The call returned 0 after pumping a full ring with interrupts disabled.
C5_Witness ==
  C5_Case /\ pc = "done" /\ result = 0 /\ h.pumped

\* The same call timed out because the data register stayed full.
C5_WitnessTimeout ==
  C5_Case /\ pc = "done" /\ result = 0 - 1

\* C6: no receive error is lost: a flag that onRecv() latched in rx_error_
\* stays in the latch until recv() has read it; the latch loses flags only
\* when recv() clears it, and then only flags that recv() has read.
C6_NoErrorLost ==
  [][\/ BitAnd(rx_error, rx_error') = rx_error
     \/ (pc = "rv_clr" /\ pc' = "rv_ret" /\ rx_error = h.rv_err)]_vars

\* The receive ring is full; recv() has handed a result to its caller.
RxFull == NextIdx(rx_head, BTR_USART_RX_BUFF_SIZE) = rx_tail

RecvReturned == (pc = "done" /\ op = "recv") \/ pc = "rb_check"

C7_RingHoldsPending ==
  /\ RingSeq(rx_buff, rx_tail, rx_head) = rx_pend
  /\ (RecvReturned /\ ~h.rv_empty) => result % 256 = h.rv_exp

\* C7: onRecv() on a full receive ring drops the byte, latches the overflow
\* flag and changes neither rx_head, rx_tail nor a stored byte; the ring
\* always holds exactly the stored, unread bytes in arrival order, and
\* recv() returns the oldest of them.
C7_OverflowKeepsRing ==
  /\ []C7_RingHoldsPending
  /\ [][(ISR_RX /\ RxFull)
          => /\ rx_head' = rx_head /\ rx_tail' = rx_tail
             /\ rx_buff' = rx_buff
             /\ BitAnd(rx_error', BTR_USART_OVERFLOW_ERR \div 256) # 0]_vars

\* A byte arrived while the ring was full: the overflow flag is latched and
\* the ring still holds its N - 1 bytes.
C7_Witness ==
  /\ RxFull
  /\ BitAnd(rx_error, BTR_USART_OVERFLOW_ERR \div 256) # 0
  /\ Len(rx_pend) = BTR_USART_RX_BUFF_SIZE - 1

\* C8: each ring index has one writer over every operation of the port:
\* rx_head changes only in onRecv(), rx_tail only in recv(), tx_head only in
\* send(), tx_tail only in onSend() (run by the interrupt, or by send() and
\* flush() when interrupts are disabled).
C8_SingleWriter ==
  [][/\ (rx_head' # rx_head => ISR_RX)
     /\ (rx_tail' # rx_tail => recv_tail)
     /\ (tx_head' # tx_head => send_atomic)
     /\ (tx_tail' # tx_tail => (ISR_UDRE \/ send_pump \/ flush_pump))]_vars

\* C8, as the code has it: rx_head has a second writer, the reset at the end
\* of close(), which runs in mainline code once the receive interrupt is
\* disabled; the other three indices have the one writer named above.
C8_SingleWriterExceptClose ==
  [][/\ (rx_head' # rx_head => (ISR_RX \/ close_reset))
     /\ (close_reset => bit_is_clear(ucsr_b, RXCIE))
     /\ (rx_tail' # rx_tail => recv_tail)
     /\ (tx_head' # tx_head => send_atomic)
     /\ (tx_tail' # tx_tail => (ISR_UDRE \/ send_pump \/ flush_pump))]_vars

\* close() has returned after its reset moved rx_head over unread bytes.
C8_Witness ==
  op = "close" /\ pc = "done" /\ h.open0 /\ h.discarded > 0

\* C10: when close() returns on a port that was open, the transmit ring is
\* empty, the transmitter, the receiver and both interrupts are disabled, and
\* the receive ring is empty.
C10_CloseLeavesPortIdle ==
  (op = "close" /\ pc = "done" /\ h.open0) =>
    /\ tx_head = tx_tail
    /\ bit_is_clear(ucsr_b, TXEN) /\ bit_is_clear(ucsr_b, RXEN)
    /\ bit_is_clear(ucsr_b, RXCIE) /\ bit_is_clear(ucsr_b, UDRIE)
    /\ ~isOpen
    /\ availableOf(rx_head, rx_tail) = 0

\* What recv() returned, against what the ring held when it was called.
C9_RecvResult ==
  RecvReturned =>
    IF h.rv_empty
      THEN result = BTR_USART_NO_DATA /\ rx_tail = h.rv_tail0
      ELSE /\ result = h.rv_exp + 256 * h.rv_err
           /\ rx_tail = NextIdx(h.rv_tail0, BTR_USART_RX_BUFF_SIZE)

\* C9: recv() on an empty ring returns the no-data sentinel and leaves
\* rx_tail and the latch alone; otherwise it returns the oldest unread byte
\* in bits 0-7 and the latch as read in bits 8-15, advances rx_tail by one
\* slot and clears the latch.  Once called it returns, whatever the handler
\* does meanwhile.
C9_RecvPop ==
  /\ []C9_RecvResult
  /\ [][recv_test => (rx_tail' = rx_tail /\ rx_error' = rx_error)]_vars
  /\ [][recv_err => h'.rv_err = rx_error]_vars
  /\ [][recv_clr => rx_error' = 0]_vars
  /\ (op = "recv" /\ pc = "rv_test") ~> (op = "recv" /\ pc = "done")

\* recv() returned a byte together with a latched error flag.
C9_Witness ==
  pc = "done" /\ op = "recv" /\ ~h.rv_empty /\ h.rv_err # 0 /\ result > 256

\* C11: when flush(OUT) returns, or send(byte, drain = true, ...) returns 0,
\* on an open port, the transmit ring is empty, the transmit-empty interrupt
\* is disabled and the last byte enqueued has been transmitted completely:
\* TXC is set with the data register empty and the shift register idle.
C11_FlushDrains ==
  (/\ pc = "done" /\ isOpen
   /\ (op = "flush" \/ (op = "send" /\ sd_drain /\ result = 0)))
  => /\ tx_head = tx_tail
     /\ bit_is_clear(ucsr_b, UDRIE)
     /\ txc /\ udre /\ ~tx_shift

\* C12: flush(OUT) called on an open port with global interrupts disabled
\* and a non-empty transmit ring returns only after its own onSend() calls
\* have handed every pending byte to the hardware: at its return the ring is
\* empty and the loop has pumped.
C12_FlushPumps ==
  (/\ op = "flush" /\ pc = "done" /\ isOpen /\ ~sreg_i /\ h.fl_nonempty)
  => (tx_head = tx_tail /\ h.pumped)

\* C13: recv(buffer, count, timeout) with timeout > 0 returns either without
\* the timeout bit and with count bytes stored, or with the timeout bit once
\* the accumulated delay has reached timeout; either way the bytes it took
\* from the receive ring are in the buffer from slot 0 on, in arrival order,
\* and the slots after them are untouched.
C13_RecvBufResult ==
  (op = "recvbuf" /\ pc = "done" /\ rb_timeout > 0) =>
    LET k == rb_count - rb_bytes IN
    /\ IF BitAnd(result, BTR_USART_TIMEDOUT_ERR) = 0
         THEN k = rb_count
         ELSE k < rb_count /\ rb_delays >= rb_timeout
    /\ Len(h.rb_got) = k
    /\ \A i \in 1..rb_count :
         ubuf[i] = IF i <= k THEN h.rb_got[i] ELSE Untouched

\* C14: send(buffer, count, drain) and send(string, drain) pass the bytes to
\* the single-byte send in order and stop at the first byte it refuses.  On
\* failure they return its non-zero status, exactly the bytes before the
\* refused one have been enqueued and flush() has not run; on success every
\* byte has been enqueued in order and flush() has run iff drain is true.
C14_SendBuffer ==
  (op \in {"sendstr", "sendbuf"} /\ pc = "done") =>
    LET data == SelectSeq(sb_buf, LAMBDA b : b # 0)
        k == Len(h.sb_acc)
    IN IF result = 0
         THEN h.sb_acc = data /\ h.flushed = sb_drain
         ELSE /\ result = 0 - 1
              /\ k < Len(data) /\ h.sb_acc = SubSeq(data, 1, k)
              /\ sd_ch = data[k + 1]
              /\ ~h.flushed

\* A buffer send failed on its third byte after enqueuing two.
C14_Witness ==
  /\ op \in {"sendstr", "sendbuf"} /\ pc = "done" /\ result # 0
  /\ h.sb_acc = <<1, 2>> /\ sb_drain

\* A buffer send succeeded and drained.
C14_WitnessDrained ==
  /\ op \in {"sendstr", "sendbuf"} /\ pc = "done" /\ result = 0
  /\ Len(h.sb_acc) = MaxLen /\ h.flushed

\* open() called on an open port is at its isOpen() test or has returned 0.
C15_ReturnsAtOnce ==
  (op = "open" /\ h.open0) =>
    (pc \in {"op_test", "done"} /\ (pc = "done" => result = 0))

\* C15: open() on a port that is already open returns 0 and none of its
\* steps writes the baud-rate, format or control register (the interrupt
\* enable bits, a set transmit-empty enable included) or a ring index.
C15_OpenTwice ==
  /\ []C15_ReturnsAtOnce
  /\ [][(op = "open" /\ h.open0 /\ pc' # pc)
          => /\ ubrr' = ubrr /\ ucsr_c' = ucsr_c /\ ucsr_b' = ucsr_b
             /\ rx_head' = rx_head /\ rx_tail' = rx_tail
             /\ tx_head' = tx_head /\ tx_tail' = tx_tail]_vars

\* open() has returned on an open port whose transmit ring holds a byte with
\* the transmit-empty interrupt enabled, and whose receive ring holds a byte.
C15_Witness ==
  /\ op = "open" /\ h.open0 /\ pc = "done"
  /\ bit_is_set(ucsr_b, UDRIE) /\ tx_head # tx_tail /\ rx_head # rx_tail

\* C16: for the desktop serial port, after flush(FLUSH_IN) has returned 0
\* the data received and not read before it is gone: with nothing in transit
\* and nothing sent since, available() returns 0 and recv() returns 0 bytes;
\* and the bytes read, queued or in transit after it are exactly the bytes in
\* transit at the flush followed by the bytes the peer sent since, unchanged
\* and in order.
C16_FlushInDiscards ==
  /\ tt_op = "flush" => tt_ret = 0
  /\ tt_op = "recv" => tt_ret = Len(tt_rbuf)
  /\ tt_flushed =>
       /\ tt_read \o tt_inq \o tt_line = tt_pre \o tt_sent
       /\ (tt_pre = <<>> /\ tt_sent = <<>> /\ tt_op \in {"available", "recv"})
            => tt_ret = 0

\* flush(FLUSH_IN) discarded unread bytes, then the peer sent two bytes and
\* the reader received exactly those.
C16_Witness ==
  /\ tt_flushed /\ tt_lost > 0 /\ tt_pre = <<>>
  /\ tt_op = "recv" /\ tt_ret = 2 /\ tt_read = tt_sent /\ tt_rbuf = tt_sent

\* C17: in every reachable state, whatever the interleaving of the mainline
\* operations with the handlers, rx_head and rx_tail are in [0, N_rx) and
\* tx_head and tx_tail are in [0, N_tx).
C17_IndicesInRange ==
  /\ rx_head \in 0..(BTR_USART_RX_BUFF_SIZE - 1)
  /\ rx_tail \in 0..(BTR_USART_RX_BUFF_SIZE - 1)
  /\ tx_head \in 0..(BTR_USART_TX_BUFF_SIZE - 1)
  /\ tx_tail \in 0..(BTR_USART_TX_BUFF_SIZE - 1)

\* Both rings have wrapped: each head is back at slot 0 behind its tail.
C17_Witness ==
  /\ rx_head = 0 /\ rx_tail = BTR_USART_RX_BUFF_SIZE - 1
  /\ tx_head = 0 /\ tx_tail = BTR_USART_TX_BUFF_SIZE - 1

\* Bytes the transmit indices say are in the ring.
TxCount ==
  (BTR_USART_TX_BUFF_SIZE + tx_head - tx_tail) % BTR_USART_TX_BUFF_SIZE

\* C18: send() never advances tx_head onto tx_tail, whatever onSend() does
\* between its test and its store: the slot it is about to publish is the
\* successor of tx_head and differs from tx_tail.  At most N - 1 bytes are
\* pending, pending bytes never read as an empty ring, and every byte that was
\* accepted and not yet handed on still sits unchanged in the last slots
\* before tx_head, inside the part of the ring the indices call occupied.
C18_HeadNeverReachesTail ==
  /\ pc = "sd_atomic" =>
       /\ sd_head_next = NextIdx(tx_head, BTR_USART_TX_BUFF_SIZE)
       /\ sd_head_next # tx_tail
  /\ Len(tx_pend) <= TxCount
  /\ TxCount <= BTR_USART_TX_BUFF_SIZE - 1
  /\ tx_pend # <<>> => tx_head # tx_tail
  /\ \A i \in 1..Len(tx_pend) :
       tx_buff[(tx_head + BTR_USART_TX_BUFF_SIZE - Len(tx_pend) + i)
               % BTR_USART_TX_BUFF_SIZE] = tx_pend[i]

\* send() found the ring full, waited with interrupts enabled, the handler
\* took a byte, and send() filled the ring again.
C18_Witness ==
  /\ pc = "sd_drain" /\ sreg_i /\ sd_delays > 0
  /\ Len(tx_pend) = BTR_USART_TX_BUFF_SIZE - 1
  /\ TxCount = BTR_USART_TX_BUFF_SIZE - 1

\* The ring holds the stored, unreturned bytes in arrival order; the slot
\* recv() is about to read was written by the handler and holds the oldest
\* of them, and the byte recv() carries after its pop is the byte it popped.
C19_ReadsOldest ==
  /\ RingSeq(rx_buff, rx_tail, rx_head) = rx_pend
  /\ pc = "rv_read" => (rx_pend # <<>> /\ rx_buff[rx_tail] = Head(rx_pend))
  /\ pc = "rv_tail" => (rx_pend # <<>> /\ rv_ch = Head(rx_pend))
  /\ pc \in {"rv_err", "rv_clr", "rv_ret"} => rv_ch = h.rv_exp

\* C19: the receive path is first-in first-out and exactly-once with onRecv()
\* running between any two steps of recv(): the queue of stored, unreturned
\* bytes grows only at its end by the byte the handler stores, shrinks only
\* at its front by the pop of recv() (and is emptied by close()); recv()
\* reads the oldest stored byte from a slot the handler has written and
\* returns that byte.
C19_FifoExactlyOnce ==
  /\ []C19_ReadsOldest
  /\ [][rx_pend' # rx_pend =>
          \/ pc' = pc /\ ~RxFull
               /\ rx_pend' = Append(rx_pend, rx_buff'[rx_head])
          \/ pc = "rv_tail" /\ rx_pend' = Tail(rx_pend)
          \/ pc = "cl_reset" /\ rx_pend' = <<>>]_vars
  /\ [][(pc = "rv_ret" /\ pc' # pc) => result' % 256 = rv_ch]_vars

\* The handler stored a byte with an error flag after recv() tested the ring
\* and before recv() read the latch; recv() holds the oldest byte.
C19_Witness ==
  /\ pc = "rv_err" /\ rx_error # h.rv_err
  /\ Len(rx_pend) >= 1 /\ rv_ch = h.rv_exp

\* C20: in every state between mainline steps (the handlers and the atomic
\* block of send() are single steps) the transmit-empty interrupt is enabled
\* exactly when the transmit ring is non-empty.
C20_UdrieIffPending ==
  bit_is_set(ucsr_b, UDRIE) <=> tx_head # tx_tail

\* C21: onSend() never runs on an empty transmit ring, from the interrupt or
\* from the manual pumps of send() and flush(): every step that advances
\* tx_tail starts with tx_head # tx_tail and with a byte that send() accepted
\* and no earlier run has taken.
C21_OnSendNeverOnEmpty ==
  [][tx_tail' # tx_tail => (tx_head # tx_tail /\ tx_pend # <<>>)]_vars

\* send(byte, drain, timeout) has returned the timeout error.
SendTimedOut == op = "send" /\ pc = "done" /\ result = 0 - 1

\* A timed-out send() returns without having pumped the handler, with tx_head
\* still the index it started from.
C22_ReturnsUnqueued ==
  SendTimedOut =>
    /\ ~h.pumped /\ sd_timeout > 0 /\ sd_delays >= sd_timeout
    /\ sd_head_next = NextIdx(tx_head, BTR_USART_TX_BUFF_SIZE)

\* The timeout error is returned only from the wait of the full-ring loop.
C22_ReturnsFromWait ==
  [][(op = "send" /\ pc # "done" /\ pc' = "done" /\ result' = 0 - 1)
      => pc = "sd_wait"]_vars

\* The steps before the store change no index, slot or enable bit.
C22_WaitStepsKeepRing ==
  [][(op = "send" /\ pc' # pc
       /\ pc \in {"sd_init", "sd_test", "sd_full", "sd_wait"})
      => UNCHANGED <<tx_head, tx_buff, ucsr_b>>]_vars

\* C22: a send() that returns the timeout error has not enqueued its byte.
\* It returns from the wait of the full-ring loop, without having pumped the
\* handler, with tx_head still the index it started from; and none of the
\* steps it took (the index computation, the full test, the interrupt test
\* and the wait) changes tx_head, a slot of the ring or UCSRnB, so the
\* transmit-empty interrupt enable bit is as the handlers left it.
C22_TimeoutLeavesRing ==
  /\ []C22_ReturnsUnqueued
  /\ C22_ReturnsFromWait
  /\ C22_WaitStepsKeepRing

\* send() timed out on a ring that is still full of accepted bytes.
C22_Witness ==
  /\ SendTimedOut /\ sd_head_next = tx_tail
  /\ Len(tx_pend) = BTR_USART_TX_BUFF_SIZE - 1

\* C23: recv(buffer, count, timeout) never discards a byte its inner recv()
\* popped: when the inner call returned the no-data sentinel nothing is
\* stored; otherwise the popped byte, with or without error flags, goes into
\* the next slot of buffer, the remaining count drops by one and the flags
\* that came with it are in the accumulated status.
C23_NeverDiscards ==
  [][(pc = "rb_check" /\ pc' # pc) =>
       IF h.rv_empty
         THEN UNCHANGED <<ubuf, rb_bytes>>
         ELSE /\ ubuf' = [ubuf EXCEPT ![rb_count - rb_bytes + 1] = h.rv_exp]
              /\ rb_bytes' = rb_bytes - 1
              /\ BitAnd(rb_rc', 256 * h.rv_err) = 256 * h.rv_err]_vars

\* C24: read<T> reads sizeof(T) bytes into the scratch buffer; when that read
\* returned an OK status *val is the decoded buffer, when it returned an
\* error status *val is left as it was; in both cases the status of the read
\* is the status returned to the caller.
C24_TypedRead ==
  i2c_pc = "done" =>
    /\ i2c_status.lo <= i2c_size
    /\ i2c_val = IF is_ok(i2c_status)
                   THEN decodeFixedInt(buff_, i2c_size) ELSE i2c_val0
    /\ i2c_ret = i2c_status

====
